---- MODULE Spec2Model ----
(***************************************************************************)
(* Model of the go_face_recognition pipeline orchestrator                  *)
(* (FaceRecognizer: FaceLocations, FaceLandmarksDetect, FaceLandmarks,     *)
(* FaceLandmarksSmallModel, FaceEncodings, DetectAndEncode, Close), of the *)
(* native inference boundary it calls (facerec_detect, facerec_landmarks,  *)
(* facerec_encode, facerec_free) and of the sync.RWMutex that guards the   *)
(* engine handle.                                                          *)
(***************************************************************************)
EXTENDS Integers, Sequences, FiniteSets, TLC

\* ---------------------------------------------------------------- bounds
NumCallers == 2        \* goroutines, each making one public call
MaxFaces == 1          \* most boxes a detection finds
MaxBoxes == 2          \* most boxes a caller supplies
MaxStep == 3           \* raw landmark inputs: P[i] = (step*i + base) % PointMod
MaxBase == 9
MaxSide == 2           \* image widths and heights 1 .. MaxSide
MaxOut == 2            \* how far outside [0, MaxSide] a reported coordinate lies
MaxKnown == 2          \* most encodings in a gallery
MaxComp == 1           \* encoding components are 0, 0.6, ..., 0.6 * MaxComp
MaxTol == 2            \* tolerances are -0.1, 0, 0.3, ..., 0.3 * MaxTol
MaxList == 2           \* most encodings written to one stream
MaxAvg == 3            \* most encodings averaged

Threads == 1 .. NumCallers

\* ------------------------------------------------------ program constants
LargePoints == 68
SmallPoints == 5
PointMod == 97
EncodingLen == 128
\* float64 values are held in tenths: 1.0 and the default tolerance 0.6
One == 10
DefaultTolerance == 6
\* bytes of a float64 and of the uint32 count in the binary format
Float64Size == 8
Uint32Size == 4

HOG == "hog"
CNN == "cnn"
LandmarkLarge == "large"
LandmarkSmall == "small"

NoErr == "nil"
NotInitialized == "RecognizerNotInitializedError"

VARIABLES
    initialized,   \* FaceRecognizer.initialized
    freeCount,     \* number of facerec_free calls made on FaceRecognizer.rec
    sp5_loaded,    \* engine: the optional 5-point predictor was loaded
    wmu,           \* RWMutex: the goroutine that announced/holds Lock, 0 if none
    readers,       \* RWMutex: number of read locks currently held
    rheld,         \* per goroutine: read locks it holds (history of RLock/RUnlock)
    stack,         \* per goroutine: call stack of frames, top is last
    status,        \* per goroutine: "idle", "running", "done", "panicked"
    op,            \* per goroutine: the public call it made
    result,        \* per goroutine: value and error its public call returned
    inflight,      \* per goroutine: boundary call in progress, "none" if none
    bufs,          \* per goroutine: the native buffers of its call, with their C.free count
    calls,         \* per goroutine: boundary calls begun so far, in order
    bfail,         \* per goroutine: a boundary call returned null with error_msg set
    afterClose,    \* per goroutine: its call started after a Close had returned
    closesDone,    \* number of Close calls that have returned
    crashed,       \* the process died (panic, fatal error, crash in native code)
    heap,          \* FaceLandmarks: the backing arrays of the []Point slices
    rawP,          \* FaceLandmarks: the raw points as the landmark stage produced them
    lm,            \* FaceLandmarks: the struct being built (its fields are slices)
    lpc,           \* FaceLandmarks: position in the struct literal
    fin,           \* pure functions and NewFaceRecognizer: the arguments of the call
    fout,          \* what the call returned; NewFaceRecognizer: the engines and recognizers made
    fpc            \* the function that ran, "start" before it; NewFaceRecognizer: its position

pvars == <<initialized, freeCount, sp5_loaded, wmu, readers, rheld, stack, status,
           op, result, inflight, bufs, calls, bfail, afterClose, closesDone, crashed>>
lvars == <<heap, rawP, lm, lpc>>
fvars == <<fin, fout, fpc>>
vars == <<initialized, freeCount, sp5_loaded, wmu, readers, rheld, stack, status,
          op, result, inflight, bufs, calls, bfail, afterClose, closesDone, crashed,
          heap, rawP, lm, lpc, fin, fout, fpc>>

\* ------------------------------------------------------------ data helpers
Boxes(n) == [i \in 1 .. n |-> i]

\* a []Rectangle argument: nil, or a (possibly empty) list
NilLocs == [isnil |-> TRUE, s |-> <<>>]
Locs(s) == [isnil |-> FALSE, s |-> s]

Ret(v, e) == [val |-> v, err |-> e]

NoRet == Ret(<<>>, NoErr)

\* one activation record; fields a function does not use keep their zero value
Frame(fn, pc, locs, model, dmodel, up) ==
    [fn |-> fn, pc |-> pc, locs |-> locs, model |-> model, dmodel |-> dmodel,
     up |-> up, ret |-> NoRet, locations |-> <<>>, lms |-> <<>>]

Top(t) == stack[t][Len(stack[t])]
Pop(s) == SubSeq(s, 1, Len(s) - 1)
SetTop(s, f) == [s EXCEPT ![Len(s)] = f]
Running(t, fn, pc) ==
    /\ ~crashed
    /\ status[t] = "running"
    /\ stack[t] # <<>>
    /\ Top(t).fn = fn
    /\ Top(t).pc = pc

\* --------------------------------------------------------------- Go slices
\* A slice is a window [off, off+len) of backing array a of the heap, with
\* room for cap elements; arrays are 1-based sequences, Go indices 0-based.
NilSlice == [a |-> 0, off |-> 0, len |-> 0, cap |-> 0]

\* make([]Point, n) filled with the values vals, as array number a
MakeSlice(a, vals) == [a |-> a, off |-> 0, len |-> Len(vals), cap |-> Len(vals)]

\* s[lo:hi]
Slice(s, lo, hi) == [a |-> s.a, off |-> s.off + lo, len |-> hi - lo, cap |-> s.cap - lo]

\* s[i]
Index(h, s, i) == h[s.a][s.off + i + 1]

\* the elements a slice shows now
SliceVals(h, s) == IF s.a = 0 THEN <<>> ELSE [i \in 1 .. s.len |-> h[s.a][s.off + i]]

\* append(s, vals...): in place while the capacity lasts, else into a new array
AppendSlice(h, s, vals) ==
    IF s.len + Len(vals) <= s.cap
    THEN [heap |-> [h EXCEPT ![s.a] =
                        [j \in 1 .. Len(h[s.a]) |->
                            IF j > s.off + s.len /\ j <= s.off + s.len + Len(vals)
                            THEN vals[j - s.off - s.len]
                            ELSE h[s.a][j]]],
          slice |-> [s EXCEPT !.len = s.len + Len(vals)]]
    ELSE [heap |-> Append(h, SliceVals(h, s) \o vals),
          slice |-> [a |-> Len(h) + 1, off |-> 0,
                     len |-> s.len + Len(vals), cap |-> s.len + Len(vals)]]

ZeroFaceLandmarks ==
    [Chin |-> NilSlice, LeftEyebrow |-> NilSlice, RightEyebrow |-> NilSlice,
     NoseBridge |-> NilSlice, NoseTip |-> NilSlice, LeftEye |-> NilSlice,
     RightEye |-> NilSlice, TopLip |-> NilSlice, BottomLip |-> NilSlice]

\* ------------------------------------------------------------ sync.RWMutex
\* RLock blocks while a writer has announced itself or holds the lock
\* (Go's RWMutex prefers writers: a pending Lock stops new readers).
CanRLock == wmu = 0
\* Lock: the writer first announces itself, then waits for the readers to drain
CanAnnounce == wmu = 0
CanAcquire(t) == wmu = t /\ readers = 0
\* RUnlock of a mutex nobody read-holds is a fatal error of the runtime
RUnlockFatal == readers = 0

\* ------------------------------------------------ results of the data stages
\* A raw landmark set is a window of numPoints consecutive points of the buffer
\* facerec_landmarks returned: landmarks[i].Points[j] = buffer[i*numPoints + j].
RawLandmarks(buf, i, numPoints) ==
    [np |-> numPoints, start |-> (i - 1) * numPoints, ppf |-> buf.ppf, boxes |-> buf.boxes]

ConvertLandmarks(buf, n, numPoints) == [i \in 1 .. n |-> RawLandmarks(buf, i, numPoints)]

\* the point a raw landmark set holds at index j (0-based): the box it was
\* predicted for and the part number inside that box's shape
PointOf(r, j) ==
    LET idx == r.start + j
    IN [box |-> r.boxes[(idx \div r.ppf) + 1], part |-> idx % r.ppf]

\* zero value of FaceLandmarks / FaceLandmarksSmall
ZeroLandmarks == [filled |-> FALSE, raw |-> [np |-> 0, start |-> 0, ppf |-> 0, boxes |-> <<>>]]

\* FaceLandmarks / FaceLandmarksSmallModel, per entry: entries with too few
\* points stay zero-valued (the contour layout is modelled by StructLarge below)
Structure(raw, need) ==
    [i \in 1 .. Len(raw) |->
        IF raw[i].np < need THEN ZeroLandmarks ELSE [filled |-> TRUE, raw |-> raw[i]]]

\* the faces DetectAndEncode assembles; encodings[i] is indexed unguarded
Faces(locations, landmarks, encodings) ==
    [i \in 1 .. Len(locations) |->
        [Rectangle |-> locations[i],
         Encoding |-> encodings[i],
         Landmarks |-> IF i <= Len(landmarks) THEN landmarks[i] ELSE ZeroLandmarks]]

\* ----------------------------------------------- calls that take no lock
\* frames pushed by a call of FaceLandmarksDetect
PushLandmarksDetect(s, locs, model) ==
    Append(s, Frame("FaceLandmarksDetect", "rlock", locs, model, HOG, 1))

\* FaceLandmarks / FaceLandmarksSmallModel start by calling FaceLandmarksDetect
PushFaceLandmarks(s, locs) ==
    PushLandmarksDetect(Append(s, Frame("FaceLandmarks", "raw", locs, LandmarkLarge, HOG, 1)),
                        locs, LandmarkLarge)

PushFaceLandmarksSmall(s, locs) ==
    PushLandmarksDetect(Append(s, Frame("FaceLandmarksSmallModel", "raw", locs, LandmarkSmall, HOG, 1)),
                        locs, LandmarkSmall)

PushFaceLocations(s, up, dmodel) ==
    Append(s, Frame("FaceLocations", "rlock", NilLocs, LandmarkLarge, dmodel, up))

PushFaceEncodings(s, locs, model) ==
    Append(s, Frame("FaceEncodings", "rlock", locs, model, HOG, 1))

\* DetectAndEncode starts by calling FaceLocations(img, upsampleTimes, HOG)
PushDetectAndEncode(s, up) ==
    PushFaceLocations(Append(s, Frame("DetectAndEncode", "locations", NilLocs, LandmarkLarge, HOG, up)),
                      up, HOG)

\* What a goroutine does when a callee returns r to the stack s of its callers,
\* up to its next lock operation: the resulting stack, status and result.
RECURSIVE Continue(_, _)
Continue(s, r) ==
    IF s = <<>> THEN [stack |-> <<>>, status |-> "done", result |-> r]
    ELSE
    LET f == s[Len(s)] IN
    CASE f.fn \in {"FaceLandmarksDetect", "FaceEncodings"} ->
            \* the nested stage returned; the caller re-acquires the read lock next
            [stack |-> SetTop(s, [f EXCEPT !.pc = "relock", !.ret = r]),
             status |-> "running", result |-> NoRet]
      [] f.fn = "FaceLandmarks" ->
            IF r.err # NoErr THEN Continue(Pop(s), Ret(<<>>, r.err))
            ELSE Continue(Pop(s), Ret(Structure(r.val, LargePoints), NoErr))
      [] f.fn = "FaceLandmarksSmallModel" ->
            IF r.err # NoErr THEN Continue(Pop(s), Ret(<<>>, r.err))
            ELSE Continue(Pop(s), Ret(Structure(r.val, SmallPoints), NoErr))
      [] f.fn = "DetectAndEncode" /\ f.pc = "locations" ->
            IF r.err # NoErr THEN Continue(Pop(s), Ret(<<>>, r.err))
            ELSE [stack |-> PushFaceLandmarks(
                                SetTop(s, [f EXCEPT !.pc = "landmarks", !.locations = r.val]),
                                Locs(r.val)),
                  status |-> "running", result |-> NoRet]
      [] f.fn = "DetectAndEncode" /\ f.pc = "landmarks" ->
            IF r.err # NoErr THEN Continue(Pop(s), Ret(<<>>, r.err))
            ELSE [stack |-> PushFaceEncodings(
                                SetTop(s, [f EXCEPT !.pc = "encodings", !.lms = r.val]),
                                Locs(f.locations), LandmarkLarge),
                  status |-> "running", result |-> NoRet]
      [] f.fn = "DetectAndEncode" /\ f.pc = "encodings" ->
            IF r.err # NoErr THEN Continue(Pop(s), Ret(<<>>, r.err))
            ELSE IF Len(r.val) < Len(f.locations)
                 \* encodings[i] with i >= len(encodings): index out of range
                 THEN [stack |-> s, status |-> "panicked", result |-> NoRet]
                 ELSE Continue(Pop(s), Ret(Faces(f.locations, f.lms, r.val), NoErr))

\* the running function returns r (its deferred calls have run)
Return(t, r) ==
    LET c == Continue(Pop(stack[t]), r) IN
    /\ stack' = [stack EXCEPT ![t] = c.stack]
    /\ status' = [status EXCEPT ![t] = c.status]
    /\ result' = [result EXCEPT ![t] = c.result]
    /\ crashed' = (crashed \/ c.status = "panicked")

\* the running function moves on to pc, with frame f
Goto(t, f) ==
    /\ stack' = [stack EXCEPT ![t] = SetTop(@, f)]
    /\ UNCHANGED <<status, result, crashed>>

\* the runtime kills the process
Die ==
    /\ crashed' = TRUE
    /\ UNCHANGED <<stack, status, result>>

RLock(t) ==
    /\ CanRLock
    /\ readers' = readers + 1
    /\ rheld' = [rheld EXCEPT ![t] = @ + 1]

RUnlock(t) ==
    /\ readers' = IF RUnlockFatal THEN readers ELSE readers - 1
    /\ rheld' = [rheld EXCEPT ![t] = @ - 1]

\* a boundary call begins on the handle fr.rec
Begin(t, call) ==
    /\ inflight' = [inflight EXCEPT ![t] = call.fn]
    /\ calls' = [calls EXCEPT ![t] = Append(@, call)]

\* a boundary call ends; failed: it returned null with error_msg set
End(t, failed) ==
    /\ inflight' = [inflight EXCEPT ![t] = "none"]
    /\ bfail' = [bfail EXCEPT ![t] = @ \/ failed]

\* a native buffer: who left it on the C heap ("stage": the pixel copy the
\* pipeline stage made; "returned": an array the boundary returned;
\* "abandoned": an array the boundary had allocated when it caught an
\* exception and returned null) and the number of C.free calls made on it
Buffer(kind, origin, frees) == [kind |-> kind, origin |-> origin, frees |-> frees]

\* cImg := imageMatrixToC(img): C.CBytes copies the pixel data to the C heap
imageMatrixToC(t) ==
    bufs' = [bufs EXCEPT ![t] = Append(@, Buffer("pixels", "stage", 0))]

\* mutant: the pixel copy is freed after the conversion loop only, so not on
\* the paths that return early on a null boundary result
DeferredFree_NotOnNull(t, kind, array) ==
    LET b == bufs[t]
        n == Len(b)
    IN bufs' = [bufs EXCEPT ![t] =
            IF array = "returned"
            THEN Append([b EXCEPT ![n].frees = @ + 1], Buffer(kind, "returned", 1))
            ELSE IF array = "abandoned" THEN Append(b, Buffer(kind, "abandoned", 0))
            ELSE b]

\* the stage returns after its boundary call: `defer C.free(cImg.data)` runs
\* on every path, `defer C.free(<array>)` when the boundary returned an array
\* (the deferred calls run last in, first out: both before the deferred RUnlock)
DeferredFree(t, kind, array) ==
    LET b == bufs[t]
        n == Len(b)
        freed == [b EXCEPT ![n].frees = @ + 1]
    IN bufs' = [bufs EXCEPT ![t] =
            IF array = "returned" THEN Append(freed, Buffer(kind, "returned", 1))
            ELSE IF array = "abandoned" THEN Append(freed, Buffer(kind, "abandoned", 0))
            ELSE freed]

\* what facerec_detect leaves on the C heap: it allocates the rectangles
\* after the last statement that can throw, and only when there are some
facerec_detect_array(out) == IF out.n > 0 THEN "returned" ELSE "none"

\* what facerec_landmarks and facerec_encode leave on the C heap: they
\* allocate the array inside the try block before the loop that calls the
\* predictor or the encoder, so an exception is caught before or after it
facerec_arrays(fail) == IF fail THEN {"none", "abandoned"} ELSE {"returned"}

\* -------------------------------------------------- the inference boundary
\* facerec_detect: the detector that runs for a given use_cnn (hog_loaded holds
\* for every engine facerec_init returned without an error)
facerec_detect_runs(use_cnn) == "hog"

\* facerec_detect: an exception (null, *num_faces = 0, error_msg set), or the
\* n >= 0 rectangles found (null and *num_faces = 0 when there are none)
DetectResults == {[fail |-> TRUE, n |-> 0]} \cup {[fail |-> FALSE, n |-> k] : k \in 0 .. MaxFaces}

\* facerec_landmarks: points per face of the buffer it returns
facerec_landmarks_ppf(use_small, sp5) ==
    IF use_small = 1 /\ sp5 THEN SmallPoints ELSE LargePoints

\* facerec_encode: descriptor i is computed from the points of landmark set i
Encodings(raw) == [i \in 1 .. Len(raw) |-> [set |-> TRUE, from |-> raw[i]]]

BoundaryCall(fn, up, flag, boxes, ran) ==
    [fn |-> fn, up |-> up, flag |-> flag, boxes |-> boxes, ran |-> ran]

\* ---------------------------------------------------------- FaceLocations
FaceLocations_RLock(t) ==
    /\ Running(t, "FaceLocations", "rlock")
    /\ RLock(t)
    /\ Goto(t, [Top(t) EXCEPT !.pc = "check"])
    /\ UNCHANGED <<initialized, freeCount, sp5_loaded, wmu, op, inflight, bufs, calls, bfail,
                   afterClose, closesDone>>
    /\ UNCHANGED <<lvars, fvars>>

\* mutant: FaceLocations without the initialized check
FaceLocations_Check_NoInit(t) ==
    /\ Running(t, "FaceLocations", "check")
    /\ LET f == Top(t)
           upsampleTimes == IF f.up < 1 THEN 1 ELSE f.up
           useCNN == IF f.dmodel = CNN THEN 1 ELSE 0
       IN /\ Begin(t, BoundaryCall("facerec_detect", upsampleTimes, useCNN, <<>>,
                                   facerec_detect_runs(useCNN)))
          /\ imageMatrixToC(t)
          /\ Goto(t, [f EXCEPT !.pc = "detect"])
          /\ UNCHANGED <<readers, rheld>>
    /\ UNCHANGED <<initialized, freeCount, sp5_loaded, wmu, op, bfail, afterClose, closesDone>>
    /\ UNCHANGED <<lvars, fvars>>

FaceLocations_Check(t) ==
    /\ Running(t, "FaceLocations", "check")
    /\ IF ~initialized
       THEN /\ RUnlock(t)
            /\ IF RUnlockFatal THEN Die ELSE Return(t, Ret(<<>>, NotInitialized))
            /\ UNCHANGED <<inflight, calls, bufs>>
       ELSE LET f == Top(t)
                upsampleTimes == IF f.up < 1 THEN 1 ELSE f.up
                useCNN == IF f.dmodel = CNN THEN 1 ELSE 0
            IN /\ Begin(t, BoundaryCall("facerec_detect", upsampleTimes, useCNN, <<>>,
                                        facerec_detect_runs(useCNN)))
               /\ imageMatrixToC(t)
               /\ Goto(t, [f EXCEPT !.pc = "detect"])
               /\ UNCHANGED <<readers, rheld>>
    /\ UNCHANGED <<initialized, freeCount, sp5_loaded, wmu, op, bfail, afterClose, closesDone>>
    /\ UNCHANGED <<lvars, fvars>>

\* facerec_detect returns; the rectangles are converted and trimmed
FaceLocations_Detect(t) ==
    /\ Running(t, "FaceLocations", "detect")
    /\ \E out \in DetectResults :
          /\ End(t, out.fail)
          /\ DeferredFree(t, "rects", facerec_detect_array(out))
          /\ RUnlock(t)
          /\ IF RUnlockFatal THEN Die
             ELSE IF out.n = 0 THEN Return(t, Ret(<<>>, NoErr))
             ELSE Return(t, Ret(Boxes(out.n), NoErr))
    /\ UNCHANGED <<initialized, freeCount, sp5_loaded, wmu, op, calls, afterClose, closesDone>>
    /\ UNCHANGED <<lvars, fvars>>

\* ---------------------------------------------------- FaceLandmarksDetect
FaceLandmarksDetect_RLock(t) ==
    /\ Running(t, "FaceLandmarksDetect", "rlock")
    /\ RLock(t)
    /\ Goto(t, [Top(t) EXCEPT !.pc = "check"])
    /\ UNCHANGED <<initialized, freeCount, sp5_loaded, wmu, op, inflight, bufs, calls, bfail,
                   afterClose, closesDone>>
    /\ UNCHANGED <<lvars, fvars>>

\* from `if len(faceLocations) == 0` to the call of facerec_landmarks
\* mutant: FaceLandmarksDetect without the early return on an empty box list
FaceLandmarksDetect_Body_NoEmptyCheck(t, faceLocations) ==
    LET f == Top(t)
        useSmall == IF f.model = LandmarkSmall THEN 1 ELSE 0
    IN /\ Begin(t, BoundaryCall("facerec_landmarks", 0, useSmall, faceLocations, "none"))
       /\ imageMatrixToC(t)
       /\ Goto(t, [f EXCEPT !.pc = "landmarks", !.locations = faceLocations])
       /\ UNCHANGED <<readers, rheld>>

FaceLandmarksDetect_Body(t, faceLocations) ==
    LET f == Top(t)
        useSmall == IF f.model = LandmarkSmall THEN 1 ELSE 0
    IN IF Len(faceLocations) = 0
       THEN /\ RUnlock(t)
            /\ IF RUnlockFatal THEN Die ELSE Return(t, Ret(<<>>, NoErr))
            /\ UNCHANGED <<inflight, calls, bufs>>
       ELSE /\ Begin(t, BoundaryCall("facerec_landmarks", 0, useSmall, faceLocations, "none"))
            /\ imageMatrixToC(t)
            /\ Goto(t, [f EXCEPT !.pc = "landmarks", !.locations = faceLocations])
            /\ UNCHANGED <<readers, rheld>>

FaceLandmarksDetect_Check(t) ==
    /\ Running(t, "FaceLandmarksDetect", "check")
    /\ IF ~initialized
       THEN /\ RUnlock(t)
            /\ IF RUnlockFatal THEN Die ELSE Return(t, Ret(<<>>, NotInitialized))
            /\ UNCHANGED <<inflight, calls, bufs>>
       ELSE IF Top(t).locs.isnil
       THEN \* unlock, then detect the faces with FaceLocations(img, 1, HOG)
            /\ RUnlock(t)
            /\ IF RUnlockFatal THEN Die
               ELSE /\ stack' = [stack EXCEPT ![t] =
                            PushFaceLocations(SetTop(@, [Top(t) EXCEPT !.pc = "call"]), 1, HOG)]
                    /\ UNCHANGED <<status, result, crashed>>
            /\ UNCHANGED <<inflight, calls, bufs>>
       ELSE FaceLandmarksDetect_Body(t, Top(t).locs.s)
    /\ UNCHANGED <<initialized, freeCount, sp5_loaded, wmu, op, bfail, afterClose, closesDone>>
    /\ UNCHANGED <<lvars, fvars>>

\* fr.mu.RLock() after the nested FaceLocations returned
FaceLandmarksDetect_Relock(t) ==
    /\ Running(t, "FaceLandmarksDetect", "relock")
    /\ RLock(t)
    /\ Goto(t, [Top(t) EXCEPT !.pc = "after"])
    /\ UNCHANGED <<initialized, freeCount, sp5_loaded, wmu, op, inflight, bufs, calls, bfail,
                   afterClose, closesDone>>
    /\ UNCHANGED <<lvars, fvars>>

\* mutant: the error of the nested FaceLocations is not looked at
FaceLandmarksDetect_After_IgnoreErr(t) ==
    /\ Running(t, "FaceLandmarksDetect", "after")
    /\ FaceLandmarksDetect_Body(t, Top(t).ret.val)
    /\ UNCHANGED <<initialized, freeCount, sp5_loaded, wmu, op, bfail, afterClose, closesDone>>
    /\ UNCHANGED <<lvars, fvars>>

FaceLandmarksDetect_After(t) ==
    /\ Running(t, "FaceLandmarksDetect", "after")
    /\ IF Top(t).ret.err # NoErr
       THEN /\ RUnlock(t)
            /\ IF RUnlockFatal THEN Die ELSE Return(t, Ret(<<>>, Top(t).ret.err))
            /\ UNCHANGED <<inflight, calls, bufs>>
       ELSE FaceLandmarksDetect_Body(t, Top(t).ret.val)
    /\ UNCHANGED <<initialized, freeCount, sp5_loaded, wmu, op, bfail, afterClose, closesDone>>
    /\ UNCHANGED <<lvars, fvars>>

\* facerec_landmarks returns; the points are converted
FaceLandmarksDetect_Landmarks(t) ==
    /\ Running(t, "FaceLandmarksDetect", "landmarks")
    /\ \E fail \in BOOLEAN, array \in {"none", "returned", "abandoned"} :
          LET f == Top(t)
              useSmall == IF f.model = LandmarkSmall THEN 1 ELSE 0
              numPoints == IF useSmall = 1 THEN SmallPoints ELSE LargePoints
              buf == [ppf |-> facerec_landmarks_ppf(useSmall, sp5_loaded),
                      boxes |-> f.locations]
          IN /\ array \in facerec_arrays(fail)
             /\ End(t, fail)
             /\ DeferredFree(t, "landmarks", array)
             /\ RUnlock(t)
             /\ IF RUnlockFatal THEN Die
                ELSE IF fail THEN Return(t, Ret(<<>>, NoErr))
                ELSE Return(t, Ret(ConvertLandmarks(buf, Len(f.locations), numPoints), NoErr))
    /\ UNCHANGED <<initialized, freeCount, sp5_loaded, wmu, op, calls, afterClose, closesDone>>
    /\ UNCHANGED <<lvars, fvars>>

\* ---------------------------------------------------------- FaceEncodings
FaceEncodings_RLock(t) ==
    /\ Running(t, "FaceEncodings", "rlock")
    /\ RLock(t)
    /\ Goto(t, [Top(t) EXCEPT !.pc = "check"])
    /\ UNCHANGED <<initialized, freeCount, sp5_loaded, wmu, op, inflight, bufs, calls, bfail,
                   afterClose, closesDone>>
    /\ UNCHANGED <<lvars, fvars>>

\* mutant: FaceEncodings keeps its read lock across the nested call
FaceEncodings_Check_NoUnlock(t) ==
    /\ Running(t, "FaceEncodings", "check")
    /\ IF ~initialized
       THEN /\ RUnlock(t)
            /\ IF RUnlockFatal THEN Die ELSE Return(t, Ret(<<>>, NotInitialized))
       ELSE /\ stack' = [stack EXCEPT ![t] =
                    PushLandmarksDetect(SetTop(@, [Top(t) EXCEPT !.pc = "call"]),
                                        Top(t).locs, Top(t).model)]
            /\ UNCHANGED <<status, result, crashed, readers, rheld>>
    /\ UNCHANGED <<initialized, freeCount, sp5_loaded, wmu, op, inflight, bufs, calls, bfail,
                   afterClose, closesDone>>
    /\ UNCHANGED <<lvars, fvars>>

\* the initialized check, then unlock and call FaceLandmarksDetect
FaceEncodings_Check(t) ==
    /\ Running(t, "FaceEncodings", "check")
    /\ RUnlock(t)
    /\ IF RUnlockFatal THEN Die
       ELSE IF ~initialized THEN Return(t, Ret(<<>>, NotInitialized))
       ELSE /\ stack' = [stack EXCEPT ![t] =
                    PushLandmarksDetect(SetTop(@, [Top(t) EXCEPT !.pc = "call"]),
                                        Top(t).locs, Top(t).model)]
            /\ UNCHANGED <<status, result, crashed>>
    /\ UNCHANGED <<initialized, freeCount, sp5_loaded, wmu, op, inflight, bufs, calls, bfail,
                   afterClose, closesDone>>
    /\ UNCHANGED <<lvars, fvars>>

\* fr.mu.RLock() after the nested FaceLandmarksDetect returned
FaceEncodings_Relock(t) ==
    /\ Running(t, "FaceEncodings", "relock")
    /\ RLock(t)
    /\ Goto(t, [Top(t) EXCEPT !.pc = "after"])
    /\ UNCHANGED <<initialized, freeCount, sp5_loaded, wmu, op, inflight, bufs, calls, bfail,
                   afterClose, closesDone>>
    /\ UNCHANGED <<lvars, fvars>>

FaceEncodings_After(t) ==
    /\ Running(t, "FaceEncodings", "after")
    /\ LET f == Top(t)
           raw == f.ret.val
           numPoints == IF f.model = LandmarkSmall THEN SmallPoints ELSE LargePoints
       IN IF f.ret.err # NoErr
          THEN /\ RUnlock(t)
               /\ IF RUnlockFatal THEN Die ELSE Return(t, Ret(<<>>, f.ret.err))
               /\ UNCHANGED <<inflight, calls, bufs>>
          ELSE IF Len(raw) = 0
          THEN /\ RUnlock(t)
               /\ IF RUnlockFatal THEN Die ELSE Return(t, Ret(<<>>, NoErr))
               /\ UNCHANGED <<inflight, calls, bufs>>
          ELSE /\ Begin(t, BoundaryCall("facerec_encode", numPoints, 0,
                                        [i \in 1 .. Len(raw) |-> i], "none"))
               /\ imageMatrixToC(t)
               /\ Goto(t, [f EXCEPT !.pc = "encode", !.lms = raw])
               /\ UNCHANGED <<readers, rheld>>
    /\ UNCHANGED <<initialized, freeCount, sp5_loaded, wmu, op, bfail, afterClose, closesDone>>
    /\ UNCHANGED <<lvars, fvars>>

\* facerec_encode returns; the descriptors are converted
FaceEncodings_Encode(t) ==
    /\ Running(t, "FaceEncodings", "encode")
    /\ \E fail \in BOOLEAN, array \in {"none", "returned", "abandoned"} :
          /\ array \in facerec_arrays(fail)
          /\ End(t, fail)
          /\ DeferredFree(t, "encodings", array)
          /\ RUnlock(t)
          /\ IF RUnlockFatal THEN Die
             ELSE IF fail THEN Return(t, Ret(<<>>, NoErr))
             ELSE Return(t, Ret(Encodings(Top(t).lms), NoErr))
    /\ UNCHANGED <<initialized, freeCount, sp5_loaded, wmu, op, calls, afterClose, closesDone>>
    /\ UNCHANGED <<lvars, fvars>>

\* ------------------------------------------------------------------ Close
\* fr.mu.Lock(): the writer announces itself ...
Close_Lock(t) ==
    /\ Running(t, "Close", "lock")
    /\ CanAnnounce
    /\ wmu' = t
    /\ Goto(t, [Top(t) EXCEPT !.pc = "acquire"])
    /\ UNCHANGED <<initialized, freeCount, sp5_loaded, readers, rheld, op, inflight, bufs, calls,
                   bfail, afterClose, closesDone>>
    /\ UNCHANGED <<lvars, fvars>>

\* ... and gets the lock once the readers have drained
Close_Acquire(t) ==
    /\ Running(t, "Close", "acquire")
    /\ CanAcquire(t)
    /\ Goto(t, [Top(t) EXCEPT !.pc = "body"])
    /\ UNCHANGED <<initialized, freeCount, sp5_loaded, wmu, readers, rheld, op, inflight, bufs,
                   calls, bfail, afterClose, closesDone>>
    /\ UNCHANGED <<lvars, fvars>>

\* mutant: Close frees the handle without looking at fr.initialized
Close_Body_NoGuard(t) ==
    /\ Running(t, "Close", "body")
    /\ freeCount' = freeCount + 1
    /\ initialized' = FALSE
    /\ wmu' = 0
    /\ closesDone' = closesDone + 1
    /\ Return(t, NoRet)
    /\ UNCHANGED <<sp5_loaded, readers, rheld, op, inflight, bufs, calls, bfail, afterClose>>
    /\ UNCHANGED <<lvars, fvars>>

\* if fr.initialized { facerec_free(fr.rec); fr.initialized = false }; Unlock
Close_Body(t) ==
    /\ Running(t, "Close", "body")
    /\ IF initialized
       THEN /\ freeCount' = freeCount + 1
            /\ initialized' = FALSE
       ELSE UNCHANGED <<freeCount, initialized>>
    /\ wmu' = 0
    /\ closesDone' = closesDone + 1
    /\ Return(t, NoRet)
    /\ UNCHANGED <<sp5_loaded, readers, rheld, op, inflight, bufs, calls, bfail, afterClose>>
    /\ UNCHANGED <<lvars, fvars>>

\* a boundary call that runs on a freed handle reads freed memory: beside
\* returning as usual it may bring the process down
UseAfterFree(t) ==
    /\ ~crashed
    /\ inflight[t] # "none"
    /\ freeCount > 0
    /\ Die
    /\ UNCHANGED <<initialized, freeCount, sp5_loaded, wmu, readers, rheld, op, inflight, bufs,
                   calls, bfail, afterClose, closesDone>>
    /\ UNCHANGED <<lvars, fvars>>

\* ------------------------------------------------------- the public calls
LocArgs == {NilLocs} \cup {Locs(Boxes(n)) : n \in 0 .. MaxBoxes}
UpsampleArgs == {0, 2}
PublicOp(fn, locs, model, dmodel, up) ==
    [fn |-> fn, locs |-> locs, model |-> model, dmodel |-> dmodel, up |-> up]

Ops ==
    {PublicOp("FaceLocations", NilLocs, LandmarkLarge, d, u) : d \in {HOG, CNN}, u \in UpsampleArgs}
    \cup {PublicOp("FaceLandmarksDetect", l, m, HOG, 1) : l \in LocArgs, m \in {LandmarkLarge, LandmarkSmall}}
    \cup {PublicOp("FaceLandmarks", l, LandmarkLarge, HOG, 1) : l \in LocArgs}
    \cup {PublicOp("FaceLandmarksSmallModel", l, LandmarkSmall, HOG, 1) : l \in LocArgs}
    \cup {PublicOp("FaceEncodings", l, m, HOG, 1) : l \in LocArgs, m \in {LandmarkLarge, LandmarkSmall}}
    \cup {PublicOp("DetectAndEncode", NilLocs, LandmarkLarge, HOG, u) : u \in UpsampleArgs}
    \cup {PublicOp("Close", NilLocs, LandmarkLarge, HOG, 1)}

Entry(o) ==
    CASE o.fn = "FaceLocations" -> PushFaceLocations(<<>>, o.up, o.dmodel)
      [] o.fn = "FaceLandmarksDetect" -> PushLandmarksDetect(<<>>, o.locs, o.model)
      [] o.fn = "FaceLandmarks" -> PushFaceLandmarks(<<>>, o.locs)
      [] o.fn = "FaceLandmarksSmallModel" -> PushFaceLandmarksSmall(<<>>, o.locs)
      [] o.fn = "FaceEncodings" -> PushFaceEncodings(<<>>, o.locs, o.model)
      [] o.fn = "DetectAndEncode" -> PushDetectAndEncode(<<>>, o.up)
      [] o.fn = "Close" -> <<Frame("Close", "lock", NilLocs, LandmarkLarge, HOG, 1)>>

\* a goroutine calls a public method of the recognizer
Call(t) ==
    /\ ~crashed
    /\ status[t] = "idle"
    /\ \E o \in Ops :
          /\ op' = [op EXCEPT ![t] = o]
          /\ stack' = [stack EXCEPT ![t] = Entry(o)]
    /\ status' = [status EXCEPT ![t] = "running"]
    /\ afterClose' = [afterClose EXCEPT ![t] = closesDone > 0]
    /\ UNCHANGED <<initialized, freeCount, sp5_loaded, wmu, readers, rheld, result, inflight, bufs,
                   calls, bfail, closesDone, crashed>>
    /\ UNCHANGED <<lvars, fvars>>

NoOp == PublicOp("none", NilLocs, LandmarkLarge, HOG, 1)

\* the contour reconstruction is not running
LandmarksOff ==
    /\ heap = <<>>
    /\ rawP = <<>>
    /\ lm = ZeroFaceLandmarks
    /\ lpc = "off"

\* no pure function of the package is being followed
FunctionsOff ==
    /\ fin = <<>>
    /\ fout = <<>>
    /\ fpc = "off"

\* the recognizer NewFaceRecognizer returned: engine loaded, handle open
Init ==
    /\ initialized = TRUE
    /\ freeCount = 0
    /\ sp5_loaded \in BOOLEAN
    /\ wmu = 0
    /\ readers = 0
    /\ rheld = [t \in Threads |-> 0]
    /\ stack = [t \in Threads |-> <<>>]
    /\ status = [t \in Threads |-> "idle"]
    /\ op = [t \in Threads |-> NoOp]
    /\ result = [t \in Threads |-> NoRet]
    /\ inflight = [t \in Threads |-> "none"]
    /\ bufs = [t \in Threads |-> <<>>]
    /\ calls = [t \in Threads |-> <<>>]
    /\ bfail = [t \in Threads |-> FALSE]
    /\ afterClose = [t \in Threads |-> FALSE]
    /\ closesDone = 0
    /\ crashed = FALSE
    /\ LandmarksOff
    /\ FunctionsOff

Next ==
    \E t \in Threads :
        \/ Call(t)
        \/ FaceLocations_RLock(t)
        \/ FaceLocations_Check(t)
        \/ FaceLocations_Detect(t)
        \/ FaceLandmarksDetect_RLock(t)
        \/ FaceLandmarksDetect_Check(t)
        \/ FaceLandmarksDetect_Relock(t)
        \/ FaceLandmarksDetect_After(t)
        \/ FaceLandmarksDetect_Landmarks(t)
        \/ FaceEncodings_RLock(t)
        \/ FaceEncodings_Check(t)
        \/ FaceEncodings_Relock(t)
        \/ FaceEncodings_After(t)
        \/ FaceEncodings_Encode(t)
        \/ Close_Lock(t)
        \/ Close_Acquire(t)
        \/ Close_Body(t)
        \/ UseAfterFree(t)

Spec == Init /\ [][Next]_vars

\* a step of goroutine t inside the call it made: everything but the start
\* of a call and a crash of native code
Step(t) ==
    \/ FaceLocations_RLock(t)
    \/ FaceLocations_Check(t)
    \/ FaceLocations_Detect(t)
    \/ FaceLandmarksDetect_RLock(t)
    \/ FaceLandmarksDetect_Check(t)
    \/ FaceLandmarksDetect_Relock(t)
    \/ FaceLandmarksDetect_After(t)
    \/ FaceLandmarksDetect_Landmarks(t)
    \/ FaceEncodings_RLock(t)
    \/ FaceEncodings_Check(t)
    \/ FaceEncodings_Relock(t)
    \/ FaceEncodings_After(t)
    \/ FaceEncodings_Encode(t)
    \/ Close_Lock(t)
    \/ Close_Acquire(t)
    \/ Close_Body(t)

\* the Go scheduler runs every goroutine that can run, a boundary call in
\* progress returns, and sync.RWMutex hands the lock to a waiter once it is
\* free (a waiting Lock keeps new readers out): a goroutine whose next step
\* stays possible takes it
SpecLive == Init /\ [][Next]_vars /\ \A t \in Threads : WF_vars(Step(t))

\* ------------------------------------------ FaceLandmarks: named contours
\* The struct literal of FaceLandmarks for one raw landmark set r, whose
\* Points slice is array 1 of the heap: the fields are evaluated in order.
Points == MakeSlice(1, heap[1])

\* mutant: the nose bridge stops one point early and the nose tip starts there
PlainContours_NoseShift(r) ==
    [ZeroFaceLandmarks EXCEPT
        !.Chin = Slice(r, 0, 17),
        !.LeftEyebrow = Slice(r, 17, 22),
        !.RightEyebrow = Slice(r, 22, 27),
        !.NoseBridge = Slice(r, 27, 30),
        !.NoseTip = Slice(r, 30, 36),
        !.LeftEye = Slice(r, 36, 42),
        !.RightEye = Slice(r, 42, 48)]

\* Chin ... RightEye: plain sub-slices of r.Points
PlainContours(r) ==
    [ZeroFaceLandmarks EXCEPT
        !.Chin = Slice(r, 0, 17),
        !.LeftEyebrow = Slice(r, 17, 22),
        !.RightEyebrow = Slice(r, 22, 27),
        !.NoseBridge = Slice(r, 27, 31),
        !.NoseTip = Slice(r, 31, 36),
        !.LeftEye = Slice(r, 36, 42),
        !.RightEye = Slice(r, 42, 48)]

FaceLandmarks_Plain ==
    /\ lpc = "start"
    /\ lm' = IF Points.len < LargePoints THEN ZeroFaceLandmarks ELSE PlainContours(Points)
    /\ lpc' = IF Points.len < LargePoints THEN "done" ELSE "toplip"
    /\ UNCHANGED <<heap, rawP>>
    /\ UNCHANGED <<pvars, fvars>>

\* mutant: the inner lip boundary is appended in forward order
TopLipTail_Forward(h, r) ==
    <<Index(h, r, 60), Index(h, r, 61), Index(h, r, 62), Index(h, r, 63), Index(h, r, 64)>>

\* the values appended to r.Points[48:55] for TopLip
TopLipTail(h, r) ==
    <<Index(h, r, 64), Index(h, r, 63), Index(h, r, 62), Index(h, r, 61), Index(h, r, 60)>>

\* TopLip: append(r.Points[48:55], r.Points[64], ..., r.Points[60])
FaceLandmarks_TopLip ==
    /\ lpc = "toplip"
    /\ LET a == AppendSlice(heap, Slice(Points, 48, 55), TopLipTail(heap, Points))
       IN /\ heap' = a.heap
          /\ lm' = [lm EXCEPT !.TopLip = a.slice]
    /\ lpc' = "bottomlip"
    /\ UNCHANGED rawP
    /\ UNCHANGED <<pvars, fvars>>

\* the values appended by the outer append of BottomLip, read from heap h
BottomLipTail(h, r) ==
    <<Index(h, r, 60), Index(h, r, 67), Index(h, r, 66), Index(h, r, 65), Index(h, r, 64)>>

\* BottomLip: append(append(r.Points[54:60], r.Points[48]), r.Points[60], ...).
\* Go leaves open whether the operands r.Points[60], ... of the outer append
\* are read before or after the inner append has run.
FaceLandmarks_BottomLip ==
    /\ lpc = "bottomlip"
    /\ \E early \in BOOLEAN :
          LET inner == AppendSlice(heap, Slice(Points, 54, 60), <<Index(heap, Points, 48)>>)
              tail == IF early THEN BottomLipTail(heap, Points)
                      ELSE BottomLipTail(inner.heap, Points)
              outer == AppendSlice(inner.heap, inner.slice, tail)
          IN /\ heap' = outer.heap
             /\ lm' = [lm EXCEPT !.BottomLip = outer.slice]
    /\ lpc' = "done"
    /\ UNCHANGED rawP
    /\ UNCHANGED <<pvars, fvars>>

\* raw landmark sets of the 68-point model: point i is (step*i + base, i) folded
RawPoints(step, base) ==
    [i \in 1 .. LargePoints |->
        [X |-> (step * (i - 1) + base) % PointMod, Y |-> (base * (i - 1)) % PointMod]]

\* raw landmark sets of the 5-point model
RawPointsSmall(step, base) == SubSeq(RawPoints(step, base), 1, SmallPoints)

ZeroFaceLandmarksSmall == [NoseTip |-> NilSlice, LeftEye |-> NilSlice, RightEye |-> NilSlice]

\* mutant: the two eyes are taken from each other's points
SmallEyes_Swapped(r) ==
    [ZeroFaceLandmarksSmall EXCEPT
        !.LeftEye = Slice(r, 0, 2),
        !.RightEye = Slice(r, 2, 4)]

\* LeftEye and RightEye: plain sub-slices of r.Points
SmallEyes(r) ==
    [ZeroFaceLandmarksSmall EXCEPT
        !.LeftEye = Slice(r, 2, 4),
        !.RightEye = Slice(r, 0, 2)]

\* FaceLandmarksSmallModel, the loop body for one raw set; the nose tip is a
\* composite literal, a new array of one point
FaceLandmarksSmallModel_Struct ==
    /\ lpc = "small"
    /\ IF Points.len < SmallPoints
       THEN /\ lm' = ZeroFaceLandmarksSmall
            /\ heap' = heap
       ELSE /\ heap' = Append(heap, <<Index(heap, Points, 4)>>)
            /\ lm' = [SmallEyes(Points) EXCEPT
                         !.NoseTip = MakeSlice(Len(heap) + 1, <<Index(heap, Points, 4)>>)]
    /\ lpc' = "donesmall"
    /\ UNCHANGED rawP
    /\ UNCHANGED <<pvars, fvars>>

\* the recognizer is idle; FaceLandmarks or FaceLandmarksSmallModel got one raw
\* set from FaceLandmarksDetect
InitLandmarks ==
    /\ initialized = TRUE
    /\ freeCount = 0
    /\ sp5_loaded = FALSE
    /\ wmu = 0
    /\ readers = 0
    /\ rheld = [t \in Threads |-> 0]
    /\ stack = [t \in Threads |-> <<>>]
    /\ status = [t \in Threads |-> "idle"]
    /\ op = [t \in Threads |-> NoOp]
    /\ result = [t \in Threads |-> NoRet]
    /\ inflight = [t \in Threads |-> "none"]
    /\ bufs = [t \in Threads |-> <<>>]
    /\ calls = [t \in Threads |-> <<>>]
    /\ bfail = [t \in Threads |-> FALSE]
    /\ afterClose = [t \in Threads |-> FALSE]
    /\ closesDone = 0
    /\ crashed = FALSE
    /\ \E step \in 0 .. MaxStep, base \in 0 .. MaxBase :
          \/ /\ rawP = RawPoints(step, base)
             /\ heap = <<RawPoints(step, base)>>
             /\ lm = ZeroFaceLandmarks
             /\ lpc = "start"
          \/ /\ rawP = RawPointsSmall(step, base)
             /\ heap = <<RawPointsSmall(step, base)>>
             /\ lm = ZeroFaceLandmarksSmall
             /\ lpc = "small"
    /\ FunctionsOff

NextLandmarks ==
    \/ FaceLandmarks_Plain
    \/ FaceLandmarks_TopLip
    \/ FaceLandmarks_BottomLip
    \/ FaceLandmarksSmallModel_Struct

SpecLandmarks == InitLandmarks /\ [][NextLandmarks]_vars

\* ------------------------------------------------- FaceLocations: trimming
\* the recognizer is idle: every variable of the pipeline at its value
\* between two calls
PipelineOff ==
    /\ initialized = TRUE
    /\ freeCount = 0
    /\ sp5_loaded = FALSE
    /\ wmu = 0
    /\ readers = 0
    /\ rheld = [t \in Threads |-> 0]
    /\ stack = [t \in Threads |-> <<>>]
    /\ status = [t \in Threads |-> "idle"]
    /\ op = [t \in Threads |-> NoOp]
    /\ result = [t \in Threads |-> NoRet]
    /\ inflight = [t \in Threads |-> "none"]
    /\ bufs = [t \in Threads |-> <<>>]
    /\ calls = [t \in Threads |-> <<>>]
    /\ bfail = [t \in Threads |-> FALSE]
    /\ afterClose = [t \in Threads |-> FALSE]
    /\ closesDone = 0
    /\ crashed = FALSE

Max(a, b) == IF a >= b THEN a ELSE b

Min(a, b) == IF a <= b THEN a ELSE b

Rectangle(top, right, bottom, left) ==
    [Top |-> top, Right |-> right, Bottom |-> bottom, Left |-> left]

trimRectToBounds(rect, height, width) ==
    Rectangle(Max(rect.Top, 0), Min(rect.Right, width),
              Min(rect.Bottom, height), Max(rect.Left, 0))

\* the loop body of FaceLocations for one rect the boundary reported: the
\* C longs become Go ints (no narrowing), then the box is trimmed
FaceLocations_Convert ==
    /\ fpc = "start"
    /\ fout' = trimRectToBounds(
                  Rectangle(fin.r.top, fin.r.right, fin.r.bottom, fin.r.left),
                  fin.Height, fin.Width)
    /\ fpc' = "FaceLocations"
    /\ UNCHANGED fin
    /\ UNCHANGED <<pvars, lvars>>

\* coordinates a detector can report for an image of at most MaxSide a side
Coords == (0 - MaxOut) .. (MaxSide + MaxOut)

\* one rect of the facerec_detect result and the image it was detected in
InitTrim ==
    /\ PipelineOff
    /\ LandmarksOff
    /\ fin \in [r : [top : Coords, right : Coords, bottom : Coords, left : Coords],
                Height : 1 .. MaxSide, Width : 1 .. MaxSide]
    /\ fout = <<>>
    /\ fpc = "start"

NextTrim == FaceLocations_Convert

SpecTrim == InitTrim /\ [][NextTrim]_vars

\* ------------------------------------------------------ matching functions
\* an encoding whose first and last components are x and y tenths
FaceEncoding(x, y) ==
    [i \in 1 .. EncodingLen |-> IF i = 1 THEN x ELSE IF i = EncodingLen THEN y ELSE 0]

\* A non-negative float64 is held as its square, in hundredths, so that a
\* square root stays exact: math.Sqrt(s) of s hundredths, and t tenths
Sqrt(s) == [sq |-> s]
Real(t) == [sq |-> t * t]
\* x <= y and x < y on such values
Leq(x, y) == x.sq <= y.sq
Less(x, y) == x.sq < y.sq

\* the loop of FaceDistance: sum of diff * diff over components lo .. hi
\* (the range is halved to keep the evaluation shallow; the sum is exact)
RECURSIVE FaceDistance_sum(_, _, _, _)
FaceDistance_sum(encoding1, encoding2, lo, hi) ==
    IF lo > hi THEN 0
    ELSE IF lo = hi
    THEN (encoding1[lo] - encoding2[lo]) * (encoding1[lo] - encoding2[lo])
    ELSE FaceDistance_sum(encoding1, encoding2, lo, (lo + hi) \div 2)
            + FaceDistance_sum(encoding1, encoding2, ((lo + hi) \div 2) + 1, hi)

\* mutant: the loop stops one component early
FaceDistance_ShortLoop(encoding1, encoding2) ==
    Sqrt(FaceDistance_sum(encoding1, encoding2, 1, EncodingLen - 1))

FaceDistance(encoding1, encoding2) ==
    Sqrt(FaceDistance_sum(encoding1, encoding2, 1, EncodingLen))

FaceDistances(encodings, faceToCompare) ==
    [i \in 1 .. Len(encodings) |-> FaceDistance(encodings[i], faceToCompare)]

\* mutant: a distance equal to the tolerance is not a match
CompareFaces_Strict(knownEncodings, faceToCheck, tolerance) ==
    LET tol == IF tolerance <= 0 THEN DefaultTolerance ELSE tolerance
        distances == FaceDistances(knownEncodings, faceToCheck)
    IN [i \in 1 .. Len(distances) |-> Less(distances[i], Real(tol))]

CompareFaces(knownEncodings, faceToCheck, tolerance) ==
    LET tol == IF tolerance <= 0 THEN DefaultTolerance ELSE tolerance
        distances == FaceDistances(knownEncodings, faceToCheck)
    IN [i \in 1 .. Len(distances) |-> Leq(distances[i], Real(tol))]

\* mutant: a later entry at the same distance replaces the best one
RECURSIVE FindBestMatch_loop_LastTie(_, _, _)
FindBestMatch_loop_LastTie(distances, tol, n) ==
    IF n = 0 THEN [bestIndex |-> -1, bestDistance |-> Real(tol + One)]
    ELSE LET b == FindBestMatch_loop_LastTie(distances, tol, n - 1)
             distance == distances[n]
         IN IF Leq(distance, Real(tol)) /\ Leq(distance, b.bestDistance)
            THEN [bestIndex |-> n - 1, bestDistance |-> distance]
            ELSE b

\* the loop of FindBestMatch after its first n iterations (Go index i = n - 1)
RECURSIVE FindBestMatch_loop(_, _, _)
FindBestMatch_loop(distances, tol, n) ==
    IF n = 0 THEN [bestIndex |-> -1, bestDistance |-> Real(tol + One)]
    ELSE LET b == FindBestMatch_loop(distances, tol, n - 1)
             distance == distances[n]
         IN IF Leq(distance, Real(tol)) /\ Less(distance, b.bestDistance)
            THEN [bestIndex |-> n - 1, bestDistance |-> distance]
            ELSE b

FindBestMatch(knownEncodings, faceToCheck, tolerance) ==
    IF Len(knownEncodings) = 0 THEN [index |-> -1, distance |-> Real(0)]
    ELSE LET tol == IF tolerance <= 0 THEN DefaultTolerance ELSE tolerance
             distances == FaceDistances(knownEncodings, faceToCheck)
             best == FindBestMatch_loop(distances, tol, Len(distances))
         IN IF best.bestIndex = -1 THEN [index |-> -1, distance |-> Real(0)]
            ELSE [index |-> best.bestIndex, distance |-> best.bestDistance]

\* a float64 that is a quotient: num / den tenths
Rat(num, den) == [num |-> num, den |-> den]

\* the first loop of NormalizeEncoding: sum of v * v over components
\* lo .. hi, in hundredths
RECURSIVE NormalizeEncoding_sum(_, _, _)
NormalizeEncoding_sum(encoding, lo, hi) ==
    IF lo > hi THEN 0
    ELSE IF lo = hi THEN encoding[lo] * encoding[lo]
    ELSE NormalizeEncoding_sum(encoding, lo, (lo + hi) \div 2)
            + NormalizeEncoding_sum(encoding, ((lo + hi) \div 2) + 1, hi)

\* magnitude = 1.0 / sum is One * One / sum per tenth; norm[i] = v * magnitude
NormalizeEncoding(encoding) ==
    LET sum == NormalizeEncoding_sum(encoding, 1, EncodingLen)
    IN IF sum = 0 THEN [i \in 1 .. EncodingLen |-> Rat(encoding[i], 1)]
       ELSE [i \in 1 .. EncodingLen |-> Rat(encoding[i] * One * One, sum)]

\* the encodings a call of the matching specification has at hand
Args == {fin.faceToCheck} \cup {fin.knownEncodings[i] : i \in 1 .. Len(fin.knownEncodings)}

\* FaceDistance called on the probe and an encoding at hand, on the swapped
\* pair and on the probe twice
FaceDistance_Call ==
    /\ fpc = "start"
    /\ \E b \in Args :
          LET a == fin.faceToCheck
          IN fout' = [a |-> a, b |-> b, ab |-> FaceDistance(a, b),
                      ba |-> FaceDistance(b, a), aa |-> FaceDistance(a, a)]
    /\ fpc' = "FaceDistance"
    /\ UNCHANGED fin
    /\ UNCHANGED <<pvars, lvars>>

CompareFaces_Call ==
    /\ fpc = "start"
    /\ fout' = CompareFaces(fin.knownEncodings, fin.faceToCheck, fin.tolerance)
    /\ fpc' = "CompareFaces"
    /\ UNCHANGED fin
    /\ UNCHANGED <<pvars, lvars>>

FindBestMatch_Call ==
    /\ fpc = "start"
    /\ fout' = FindBestMatch(fin.knownEncodings, fin.faceToCheck, fin.tolerance)
    /\ fpc' = "FindBestMatch"
    /\ UNCHANGED fin
    /\ UNCHANGED <<pvars, lvars>>

NormalizeEncoding_Call ==
    /\ fpc = "start"
    /\ \E e \in Args : fout' = [encoding |-> e, norm |-> NormalizeEncoding(e)]
    /\ fpc' = "NormalizeEncoding"
    /\ UNCHANGED fin
    /\ UNCHANGED <<pvars, lvars>>

CompVals == {6 * k : k \in 0 .. MaxComp}
Tolerances == {-1, 0} \cup {3 * k : k \in 1 .. MaxTol}
Encodings128 == {FaceEncoding(x, y) : x \in CompVals, y \in CompVals}
Galleries == UNION {[1 .. n -> Encodings128] : n \in 0 .. MaxKnown}

\* a gallery, a probe and a tolerance as a caller passes them
InitMatch ==
    /\ PipelineOff
    /\ LandmarksOff
    /\ fin \in [knownEncodings : Galleries,
                faceToCheck : {FaceEncoding(x, 0) : x \in CompVals},
                tolerance : Tolerances]
    /\ fout = <<>>
    /\ fpc = "start"

NextMatch ==
    \/ FaceDistance_Call
    \/ CompareFaces_Call
    \/ FindBestMatch_Call
    \/ NormalizeEncoding_Call

SpecMatch == InitMatch /\ [][NextMatch]_vars

\* ------------------------------------------------------------ binary codec
\* In the codec a float64 is its IEEE-754 bit pattern (math.Float64bits), a
\* 64-bit word held as 8 bytes, most significant first: 0.6, -0.1 and 0.0
F64_06 == <<63, 227, 51, 51, 51, 51, 51, 51>>
F64_m01 == <<191, 185, 153, 153, 153, 153, 153, 154>>
F64_0 == <<0, 0, 0, 0, 0, 0, 0, 0>>

Reverse(b) == [k \in 1 .. Len(b) |-> b[Len(b) + 1 - k]]

\* binary.LittleEndian.PutUint64: byte k of the output is bits >> (8 * k)
LittleEndian_PutUint64(bits) == Reverse(bits)

\* mutant: the bytes are read most significant first
LittleEndian_Uint64_BigEndian(b) == b

\* binary.LittleEndian.Uint64: b[0] | b[1] << 8 | ... | b[7] << 56
LittleEndian_Uint64(b) == Reverse(b)

\* binary.LittleEndian.PutUint32(uint32(n))
LittleEndian_PutUint32(n) ==
    [k \in 1 .. Uint32Size |->
        CASE k = 1 -> n % 256
          [] k = 2 -> (n \div 256) % 256
          [] k = 3 -> (n \div 65536) % 256
          [] k = 4 -> (n \div 16777216) % 256]

\* binary.LittleEndian.Uint32
LittleEndian_Uint32(b) == b[1] + 256 * b[2] + 65536 * b[3] + 16777216 * b[4]

\* the bytes of n consecutive float64 values vals, each written by
\* binary.Write(w, binary.LittleEndian, v)
WriteFloats(vals) ==
    [n \in 1 .. Len(vals) * Float64Size |->
        LittleEndian_PutUint64(vals[((n - 1) \div Float64Size) + 1])[((n - 1) % Float64Size) + 1]]

\* the concatenation of the sequences of a sequence
RECURSIVE Flatten(_)
Flatten(ss) == IF ss = <<>> THEN <<>> ELSE Head(ss) \o Flatten(Tail(ss))

EncodingToBytes(encoding) == WriteFloats(encoding)

\* mutant: a short read leaves the bytes that are missing zero and is no error
binary_Read_ZeroFill(data, off, size) ==
    [err |-> NoErr,
     data |-> [k \in 1 .. size |-> IF off + k <= Len(data) THEN data[off + k] ELSE 0]]

\* binary.Read of size bytes at offset off (io.ReadFull): io.EOF when nothing
\* is left, io.ErrUnexpectedEOF when fewer than size bytes are left
binary_Read(data, off, size) ==
    IF off + size <= Len(data) THEN [err |-> NoErr, data |-> SubSeq(data, off + 1, off + size)]
    ELSE IF off >= Len(data) THEN [err |-> "EOF", data |-> <<>>]
    ELSE [err |-> "ErrUnexpectedEOF", data |-> <<>>]

\* the reads of n float64 values from offset off on: the first that fails, if
\* any (0 if none), and the values read
ReadFloats(data, off, n) ==
    LET rd(k) == binary_Read(data, off + (k - 1) * Float64Size, Float64Size)
        bad == {k \in 1 .. n : rd(k).err # NoErr}
        first == IF bad = {} THEN 0 ELSE CHOOSE k \in bad : \A j \in bad : k <= j
    IN [err |-> IF first = 0 THEN NoErr ELSE rd(first).err,
        vals |-> [k \in 1 .. n |->
                    IF first # 0 /\ k >= first THEN F64_0 ELSE LittleEndian_Uint64(rd(k).data)]]

BytesToEncoding(data) ==
    LET r == ReadFloats(data, 0, EncodingLen)
    IN [encoding |-> r.vals, err |-> r.err]

\* the bytes WriteEncodings puts on a writer that takes them all
WriteEncodings(encodings) ==
    LittleEndian_PutUint32(Len(encodings)) \o Flatten([i \in 1 .. Len(encodings) |-> WriteFloats(encodings[i])])

\* a []FaceEncoding result: nil, or a (possibly empty) list
NilEncodings == [isnil |-> TRUE, s |-> <<>>]

ReadEncodings(r) ==
    LET c == binary_Read(r, 0, Uint32Size)
    IN IF c.err # NoErr THEN [encodings |-> NilEncodings, err |-> c.err]
       ELSE LET count == LittleEndian_Uint32(c.data)
                fs == ReadFloats(r, Uint32Size, count * EncodingLen)
            IN IF fs.err # NoErr THEN [encodings |-> NilEncodings, err |-> fs.err]
               ELSE [encodings |->
                        [isnil |-> FALSE,
                         s |-> [i \in 1 .. count |->
                                  [j \in 1 .. EncodingLen |-> fs.vals[(i - 1) * EncodingLen + j]]]],
                     err |-> NoErr]

\* an encoding whose first and last values are x and y, 0.0 between
Encoding64(x, y) ==
    [i \in 1 .. EncodingLen |-> IF i = 1 THEN x ELSE IF i = EncodingLen THEN y ELSE F64_0]

Encodings64 == {Encoding64(x, y) : x \in {F64_06, F64_m01}, y \in {F64_06, F64_m01}}

\* lengths at which a stream is cut: inside the count, and next to the start
\* and the end of each block of EncodingLen values
Cuts(stream) ==
    {n \in 0 .. Len(stream) - 1 :
        \/ n < Uint32Size
        \/ (n - Uint32Size) % (EncodingLen * Float64Size) \in {0, 1, EncodingLen * Float64Size - 1}}

EncodingToBytes_Call ==
    /\ fpc = "start"
    /\ \E i \in 1 .. Len(fin.encodings) :
          fout' = [encoding |-> fin.encodings[i], data |-> EncodingToBytes(fin.encodings[i])]
    /\ fpc' = "EncodingToBytes"
    /\ UNCHANGED fin
    /\ UNCHANGED <<pvars, lvars>>

BytesToEncoding_Call ==
    /\ fpc = "EncodingToBytes"
    /\ fout' = [encoding |-> fout.encoding, data |-> fout.data, back |-> BytesToEncoding(fout.data)]
    /\ fpc' = "BytesToEncoding"
    /\ UNCHANGED fin
    /\ UNCHANGED <<pvars, lvars>>

WriteEncodings_Call ==
    /\ fpc = "start"
    /\ fout' = [stream |-> WriteEncodings(fin.encodings)]
    /\ fpc' = "WriteEncodings"
    /\ UNCHANGED fin
    /\ UNCHANGED <<pvars, lvars>>

\* ReadEncodings on what was written, whole or cut short
ReadEncodings_Call ==
    /\ fpc = "WriteEncodings"
    /\ \E n \in Cuts(fout.stream) \cup {Len(fout.stream)} :
          fout' = [stream |-> fout.stream, n |-> n,
                   ret |-> ReadEncodings(SubSeq(fout.stream, 1, n))]
    /\ fpc' = "ReadEncodings"
    /\ UNCHANGED fin
    /\ UNCHANGED <<pvars, lvars>>

\* a list of encodings as a caller holds it
InitCodec ==
    /\ PipelineOff
    /\ LandmarksOff
    /\ fin \in [encodings : UNION {[1 .. n -> Encodings64] : n \in 0 .. MaxList}]
    /\ fout = <<>>
    /\ fpc = "start"

NextCodec ==
    \/ EncodingToBytes_Call
    \/ BytesToEncoding_Call
    \/ WriteEncodings_Call
    \/ ReadEncodings_Call

SpecCodec == InitCodec /\ [][NextCodec]_vars

\* -------------------------------------------------------- AverageEncoding
\* avg[i] after the first loop has added the first n encodings
RECURSIVE AverageEncoding_sum(_, _, _)
AverageEncoding_sum(encodings, i, n) ==
    IF n = 0 THEN 0 ELSE AverageEncoding_sum(encodings, i, n - 1) + encodings[n][i]

\* mutant: the sums are returned without the division by n
AverageEncoding_NoDivide(encodings) ==
    [i \in 1 .. EncodingLen |-> Rat(AverageEncoding_sum(encodings, i, Len(encodings)), 1)]

AverageEncoding(encodings) ==
    IF Len(encodings) = 0 THEN [i \in 1 .. EncodingLen |-> Rat(0, 1)]
    ELSE [i \in 1 .. EncodingLen |->
            Rat(AverageEncoding_sum(encodings, i, Len(encodings)), Len(encodings))]

AverageEncoding_Call ==
    /\ fpc = "start"
    /\ fout' = AverageEncoding(fin.encodings)
    /\ fpc' = "AverageEncoding"
    /\ UNCHANGED fin
    /\ UNCHANGED <<pvars, lvars>>

\* the encodings of several images of one person
InitAverage ==
    /\ PipelineOff
    /\ LandmarksOff
    /\ fin \in [encodings : UNION {[1 .. n -> Encodings128] : n \in 0 .. MaxAvg}]
    /\ fout = <<>>
    /\ fpc = "start"

NextAverage == AverageEncoding_Call

SpecAverage == InitAverage /\ [][NextAverage]_vars

\* ------------------------------------------------- NewFaceRecognizer: open
\* number of NewFaceRecognizer calls followed
MaxOpens == 2

\* a required path of Config.ModelPaths: the empty string, the path of a file
\* that does not exist, the path of a file that exists
PathStates == {"empty", "missing", "there"}

ModelPaths(sp68, encoder) == [ShapePredictor68 |-> sp68, FaceRecognitionModel |-> encoder]

ModelNotFoundError(name, path) ==
    [type |-> "ModelNotFoundError", ModelName |-> name, Path |-> path]

\* the nil error, as a value of the same shape
NilError == [type |-> "nil", ModelName |-> "", Path |-> ""]

\* ValidateRequired: the errors it can return; it ranges over a map, so with
\* two bad paths it returns the error of either; {NilError} when both are good
ValidateRequired(m) ==
    LET bad(name, p) ==
            IF p = "empty" THEN {ModelNotFoundError(name, "not specified")}
            ELSE IF p = "missing" THEN {ModelNotFoundError(name, "path")}
            ELSE {}
        errs == bad("shape_predictor_68", m.ShapePredictor68)
                    \cup bad("face_recognition_model", m.FaceRecognitionModel)
    IN IF errs = {} THEN {NilError} ELSE errs

\* struct FaceRecognizer of the engine as `new FaceRecognizer()` leaves it,
\* with the number of facerec_free calls made on it
NewEngine ==
    [error_msg |-> "", hog_loaded |-> FALSE, sp68_loaded |-> FALSE, sp5_loaded |-> FALSE,
     encoder_loaded |-> FALSE, frees |-> 0]

\* the engine NewFaceRecognizer is opening: the last one allocated
Rec == Len(fout.engines)

OpenGoto(pc) ==
    /\ fpc' = pc
    /\ UNCHANGED fin
    /\ UNCHANGED <<pvars, lvars>>

\* NewFaceRecognizer(config) is called
NewFaceRecognizer_Call ==
    /\ fpc = "idle"
    /\ fout.opens < MaxOpens
    /\ \E sp68 \in PathStates, encoder \in PathStates :
          fin' = ModelPaths(sp68, encoder)
    /\ fout' = [fout EXCEPT !.opens = @ + 1, !.ret = [fr |-> 0, err |-> NilError]]
    /\ fpc' = "validate"
    /\ UNCHANGED <<pvars, lvars>>

\* if err := config.ModelPaths.ValidateRequired(); err != nil { return nil, err }
NewFaceRecognizer_Validate ==
    /\ fpc = "validate"
    /\ \E err \in ValidateRequired(fin) :
          IF err # NilError
          THEN /\ fout' = [fout EXCEPT !.ret = [fr |-> 0, err |-> err]]
               /\ OpenGoto("idle")
          ELSE /\ UNCHANGED fout
               /\ OpenGoto("facerec_init")

\* facerec_init: new FaceRecognizer(), then the built-in HOG detector
facerec_init_New ==
    /\ fpc = "facerec_init"
    /\ fout' = [fout EXCEPT !.engines = Append(@, [NewEngine EXCEPT !.hog_loaded = TRUE])]
    /\ OpenGoto("sp68")

\* facerec_init: dlib::deserialize of the 68-point predictor, found by its
\* fixed name in model_dir; it throws when the file is not there or not a model
facerec_init_Sp68 ==
    /\ fpc = "sp68"
    /\ \E loads \in BOOLEAN :
          IF loads
          THEN /\ fout' = [fout EXCEPT !.engines[Rec].sp68_loaded = TRUE]
               /\ OpenGoto("sp5")
          ELSE /\ fout' = [fout EXCEPT !.engines[Rec].error_msg = "sp68"]
               /\ OpenGoto("get_error")

\* facerec_init: the optional 5-point predictor, its exception swallowed
facerec_init_Sp5 ==
    /\ fpc = "sp5"
    /\ \E loads \in BOOLEAN :
          fout' = [fout EXCEPT !.engines[Rec].sp5_loaded = loads]
    /\ OpenGoto("encoder")

\* facerec_init: dlib::deserialize of the face recognition model
facerec_init_Encoder ==
    /\ fpc = "encoder"
    /\ \E loads \in BOOLEAN :
          IF loads
          THEN fout' = [fout EXCEPT !.engines[Rec].encoder_loaded = TRUE]
          ELSE fout' = [fout EXCEPT !.engines[Rec].error_msg = "encoder"]
    /\ OpenGoto("get_error")

\* mutant: the handle is freed before the load error is returned
NewFaceRecognizer_GetError_Free ==
    /\ fpc = "get_error"
    /\ LET e == fout.engines[Rec] IN
       IF e.error_msg # ""
       THEN fout' = [fout EXCEPT
                !.engines[Rec].frees = @ + 1,
                !.ret = [fr |-> 0, err |-> ModelNotFoundError("dlib models", e.error_msg)]]
       ELSE fout' = [fout EXCEPT
                !.recognizers = Append(@, [rec |-> Rec, initialized |-> TRUE]),
                !.ret = [fr |-> Len(fout.recognizers) + 1, err |-> NilError]]
    /\ OpenGoto("idle")

\* errStr := facerec_get_error(fr.rec): non-nil returns (nil, ModelNotFoundError),
\* nil sets fr.initialized and returns (fr, nil)
NewFaceRecognizer_GetError ==
    /\ fpc = "get_error"
    /\ LET e == fout.engines[Rec] IN
       IF e.error_msg # ""
       THEN fout' = [fout EXCEPT
                !.ret = [fr |-> 0, err |-> ModelNotFoundError("dlib models", e.error_msg)]]
       ELSE fout' = [fout EXCEPT
                !.recognizers = Append(@, [rec |-> Rec, initialized |-> TRUE]),
                !.ret = [fr |-> Len(fout.recognizers) + 1, err |-> NilError]]
    /\ OpenGoto("idle")

\* Close on a recognizer NewFaceRecognizer returned
Recognizer_Close ==
    /\ fpc = "idle"
    /\ \E r \in 1 .. Len(fout.recognizers) :
          LET fr == fout.recognizers[r] IN
          /\ fr.initialized
          /\ fout' = [fout EXCEPT !.engines[fr.rec].frees = @ + 1,
                                  !.recognizers[r].initialized = FALSE]
    /\ OpenGoto("idle")

\* no recognizer has been opened yet
InitOpen ==
    /\ PipelineOff
    /\ LandmarksOff
    /\ fin = <<>>
    /\ fout = [opens |-> 0, engines |-> <<>>, recognizers |-> <<>>,
               ret |-> [fr |-> 0, err |-> NilError]]
    /\ fpc = "idle"

NextOpen ==
    \/ NewFaceRecognizer_Call
    \/ NewFaceRecognizer_Validate
    \/ facerec_init_New
    \/ facerec_init_Sp68
    \/ facerec_init_Sp5
    \/ facerec_init_Encoder
    \/ NewFaceRecognizer_GetError
    \/ Recognizer_Close

SpecOpen == InitOpen /\ [][NextOpen]_vars

\* ================================================================= claims
IsDone(t) == status[t] = "done"

\* C1: once Close has freed the engine handle, no inference-boundary call
\* (facerec_detect, facerec_landmarks, facerec_encode) begins or is in
\* progress on it, under any interleaving of pipeline calls with Close.
C1_ReleaseExcludesReaders ==
    freeCount > 0 => \A t \in Threads : inflight[t] = "none"

\* C2: Close is idempotent: the handle is freed exactly once, by the first
\* Close; once a Close has returned the handle stays freed once and the
\* recognizer stays uninitialized whatever later Close calls do, and no Close
\* brings the process down.
C2_CloseIdempotent ==
    /\ freeCount <= 1
    /\ closesDone >= 1 => (freeCount = 1 /\ ~initialized)
    /\ \A t \in Threads : op[t].fn = "Close" => status[t] # "panicked"
    /\ (\A t \in Threads : op[t].fn \in {"Close", "none"}) => ~crashed

C2_Witness ==
    /\ closesDone >= 2
    /\ freeCount = 1
    /\ ~crashed

\* C3: a public pipeline operation called after Close has completed returns
\* NotInitialized and makes no inference-boundary call.
C3_NotInitializedAfterClose ==
    \A t \in Threads :
        (afterClose[t] /\ op[t].fn # "Close") =>
            /\ calls[t] = <<>>
            /\ inflight[t] = "none"
            /\ status[t] # "panicked"
            /\ IsDone(t) => result[t].err = NotInitialized

C3_Witness ==
    \E t \in Threads :
        /\ afterClose[t]
        /\ op[t].fn = "DetectAndEncode"
        /\ IsDone(t)
        /\ result[t].err = NotInitialized

\* what the next step of a running goroutine waits for
CanStep(t) ==
    /\ status[t] = "running"
    /\ CASE Top(t).pc \in {"rlock", "relock"} -> CanRLock
         [] Top(t).pc = "lock" -> CanAnnounce
         [] Top(t).pc = "acquire" -> CanAcquire(t)
         [] OTHER -> TRUE

\* C4: a caller never requests the shared lock while it still holds it, so
\* with a writer-preferring lock and a Close waiting at any point no call
\* deadlocks: while calls are running, one of them can take a step.
C4_NoReentrantRLock ==
    /\ \A t \in Threads :
          (status[t] = "running" /\ Top(t).pc \in {"rlock", "relock"}) => rheld[t] = 0
    /\ (~crashed /\ \E t \in Threads : status[t] = "running") =>
          \E t \in Threads : CanStep(t)

\* a nested stage of DetectAndEncode asks for the read lock while a Close waits
C4_Witness ==
    \E t \in Threads :
        /\ op[t].fn = "DetectAndEncode"
        /\ status[t] = "running"
        /\ Len(stack[t]) = 3
        /\ Top(t).fn = "FaceLandmarksDetect"
        /\ Top(t).pc = "rlock"
        /\ stack[t][2].fn = "FaceEncodings"
        /\ rheld[t] = 0
        /\ wmu \notin {0, t}

\* C5: when a boundary call failed (null result, error message set) the
\* pipeline operation returns an error, never an empty result with nil error.
C5_BoundaryFailureSurfaces ==
    \A t \in Threads : (IsDone(t) /\ bfail[t]) => result[t].err # NoErr

\* C6: FaceLocations with a detector other than HOG fails with
\* UnsupportedModel and does not run the HOG detector in its place.
C6_UnsupportedDetector ==
    \A t \in Threads :
        (op[t].fn = "FaceLocations" /\ op[t].dmodel # HOG) =>
            /\ \A i \in 1 .. Len(calls[t]) : calls[t][i].ran # "hog"
            /\ IsDone(t) => result[t].err = "UnsupportedModelError"

\* the boxes the detection stage of DetectAndEncode returned: with one box or
\* more, they are the boxes handed to the first facerec_landmarks call
DetectedBoxes(t) == IF Len(calls[t]) >= 2 THEN calls[t][2].boxes ELSE <<>>

\* C7: DetectAndEncode on an open engine, when detection yields n boxes and
\* no sub-stage returns an error, returns n faces, face i carrying box i, even
\* when a later stage produced fewer than n entries; it never aborts.
C7_FacePerDetection ==
    \A t \in Threads :
        op[t].fn = "DetectAndEncode" =>
            /\ status[t] # "panicked"
            /\ (IsDone(t) /\ result[t].err = NoErr) =>
                  /\ Len(result[t].val) = Len(DetectedBoxes(t))
                  /\ \A i \in 1 .. Len(result[t].val) :
                        result[t].val[i].Rectangle = DetectedBoxes(t)[i]

\* raw point k (0-based) as the landmark stage produced it
P(k) == rawP[k + 1]

\* C8: the lower-lip contour is P[54..59], P[48], P[60], P[67], P[66], P[65],
\* P[64] of the raw points the landmark stage produced.
C8_BottomLip ==
    lpc = "done" =>
        SliceVals(heap, lm.BottomLip) =
            <<P(54), P(55), P(56), P(57), P(58), P(59), P(48),
              P(60), P(67), P(66), P(65), P(64)>>

\* C9: the upper-lip contour is P[48..54], P[64], P[63], P[62], P[61], P[60],
\* and still is after the lower-lip contour has been built.
C9_TopLip ==
    lpc \in {"bottomlip", "done"} =>
        SliceVals(heap, lm.TopLip) =
            <<P(48), P(49), P(50), P(51), P(52), P(53), P(54),
              P(64), P(63), P(62), P(61), P(60)>>

C9_Witness ==
    /\ lpc = "done"
    /\ lm.BottomLip.len = 12
    /\ heap[1] # rawP
    /\ P(60) # P(48)
    /\ P(60) # P(64)
    /\ SliceVals(heap, lm.TopLip)[12] = P(60)

\* C10: jaw = P[0,17), left eyebrow = P[17,22), right eyebrow = P[22,27),
\* nose bridge = P[27,31), nose tip = P[31,36), left eye = P[36,42), right
\* eye = P[42,48), and the nine contours have lengths 17,5,5,4,5,6,6,12,12.
C10_PlainContours ==
    lpc = "done" =>
        /\ SliceVals(heap, lm.Chin) = SubSeq(rawP, 1, 17)
        /\ SliceVals(heap, lm.LeftEyebrow) = SubSeq(rawP, 18, 22)
        /\ SliceVals(heap, lm.RightEyebrow) = SubSeq(rawP, 23, 27)
        /\ SliceVals(heap, lm.NoseBridge) = SubSeq(rawP, 28, 31)
        /\ SliceVals(heap, lm.NoseTip) = SubSeq(rawP, 32, 36)
        /\ SliceVals(heap, lm.LeftEye) = SubSeq(rawP, 37, 42)
        /\ SliceVals(heap, lm.RightEye) = SubSeq(rawP, 43, 48)
        /\ <<lm.Chin.len, lm.LeftEyebrow.len, lm.RightEyebrow.len, lm.NoseBridge.len,
             lm.NoseTip.len, lm.LeftEye.len, lm.RightEye.len, lm.TopLip.len,
             lm.BottomLip.len>> = <<17, 5, 5, 4, 5, 6, 6, 12, 12>>

C10_Witness ==
    /\ lpc = "done"
    /\ heap[1] # rawP
    /\ \A i \in 0 .. 46 : P(i) # P(i + 1)
    /\ SliceVals(heap, lm.RightEye)[6] = P(47)

\* C11: every box FaceLocations returns lies inside the image it was detected
\* in: top and bottom are in [0, Height], left and right are in [0, Width],
\* whatever rect the boundary reported.
C11_BoxInsideImage ==
    fpc = "FaceLocations" =>
        /\ fout.Top \in 0 .. fin.Height
        /\ fout.Bottom \in 0 .. fin.Height
        /\ fout.Left \in 0 .. fin.Width
        /\ fout.Right \in 0 .. fin.Width

\* C12: when the engine never loaded the 5-point predictor, FaceLandmarksDetect
\* with the small model returns no 5-point set cut out of a 68-point result:
\* every set it returns is a whole shape of the model that produced it.
C12_SmallModelUnavailable ==
    \A t \in Threads :
        (op[t].fn = "FaceLandmarksDetect" /\ op[t].model = LandmarkSmall
            /\ ~sp5_loaded /\ IsDone(t)) =>
            \A i \in 1 .. Len(result[t].val) :
                result[t].val[i].ppf = result[t].val[i].np

\* C13: FaceLandmarksDetect with n >= 1 supplied boxes and a boundary that
\* succeeds returns n raw sets, each of 68 points (large) or 5 points (small),
\* and point j of set i is part j of the shape predicted for box i.
C13_RawSetPerBox ==
    \A t \in Threads :
        (op[t].fn = "FaceLandmarksDetect" /\ ~op[t].locs.isnil /\ Len(op[t].locs.s) >= 1
            /\ IsDone(t) /\ result[t].err = NoErr /\ ~bfail[t]) =>
            /\ Len(result[t].val) = Len(op[t].locs.s)
            /\ \A i \in 1 .. Len(result[t].val) :
                  /\ result[t].val[i].np =
                        (IF op[t].model = LandmarkSmall THEN SmallPoints ELSE LargePoints)
                  /\ \A j \in 0 .. result[t].val[i].np - 1 :
                        PointOf(result[t].val[i], j) = [box |-> op[t].locs.s[i], part |-> j]

\* C14: FaceLandmarksDetect and FaceEncodings given an empty, non-nil box list
\* make no boundary call at all, and on a recognizer that is still open when
\* they return they return an empty result and no error.
C14_EmptyBoxesNoBoundary ==
    \A t \in Threads :
        (op[t].fn \in {"FaceLandmarksDetect", "FaceEncodings"} /\ op[t].locs = Locs(<<>>)) =>
            /\ calls[t] = <<>>
            /\ inflight[t] = "none"
            /\ (IsDone(t) /\ initialized) => result[t] = Ret(<<>>, NoErr)

C14_Witness ==
    \E t, u \in Threads :
        /\ op[t].fn = "FaceEncodings" /\ op[t].locs = Locs(<<>>)
        /\ op[u].fn = "FaceLandmarksDetect" /\ op[u].locs = Locs(<<>>)
        /\ IsDone(t) /\ IsDone(u) /\ initialized
        /\ result[t] = Ret(<<>>, NoErr) /\ result[u] = Ret(<<>>, NoErr)
        /\ calls[t] = <<>> /\ calls[u] = <<>>

\* C15: FaceEncodings with n >= 1 supplied boxes and a boundary that succeeds
\* returns n descriptors, and descriptor i is computed from the landmark set
\* of box i: point j of the set it was computed from is part j of the shape
\* predicted for box i.
C15_DescriptorPerBox ==
    \A t \in Threads :
        (op[t].fn = "FaceEncodings" /\ ~op[t].locs.isnil /\ Len(op[t].locs.s) >= 1
            /\ IsDone(t) /\ result[t].err = NoErr /\ ~bfail[t]) =>
            /\ Len(result[t].val) = Len(op[t].locs.s)
            /\ \A i \in 1 .. Len(result[t].val) :
                  /\ result[t].val[i].set
                  /\ \A j \in 0 .. result[t].val[i].from.np - 1 :
                        PointOf(result[t].val[i].from, j) =
                            [box |-> op[t].locs.s[i], part |-> j]

\* C16: for a 5-point raw set P, FaceLandmarksSmallModel gives nose tip =
\* [P[4]], left eye = [P[2], P[3]] and right eye = [P[0], P[1]].
C16_SmallContours ==
    lpc = "donesmall" =>
        /\ SliceVals(heap, lm.NoseTip) = <<P(4)>>
        /\ SliceVals(heap, lm.LeftEye) = <<P(2), P(3)>>
        /\ SliceVals(heap, lm.RightEye) = <<P(0), P(1)>>

C16_Witness ==
    /\ lpc = "donesmall"
    /\ Len(rawP) = SmallPoints
    /\ \A i \in 0 .. 3 : \A j \in (i + 1) .. 4 : P(i) # P(j)
    /\ SliceVals(heap, lm.LeftEye)[2] = P(3)

\* the distances of the gallery entries to the probe, in gallery order
Distances == FaceDistances(fin.knownEncodings, fin.faceToCheck)

\* the tolerance in force: the supplied one if positive, else the default
EffectiveTolerance == IF fin.tolerance > 0 THEN fin.tolerance ELSE DefaultTolerance

\* what a best-match search owes for the set q of qualifying positions: the
\* first position of least distance (as a Go index) with its distance, or
\* the sentinel (-1, 0) when nothing qualifies
BestOf(d, q) ==
    IF q = {} THEN [index |-> -1, distance |-> Real(0)]
    ELSE LET i == CHOOSE i \in q :
                    \A j \in q : Less(d[i], d[j]) \/ (d[i] = d[j] /\ i <= j)
         IN [index |-> i - 1, distance |-> d[i]]

\* C17 as stated: FindBestMatch returns the first entry of least distance among
\* those within the supplied tolerance, with that distance, and (-1, 0) exactly
\* when the gallery is empty or no entry is within the supplied tolerance.
C17_BestMatchSuppliedTolerance ==
    fpc = "FindBestMatch" =>
        LET d == Distances
        IN fout = BestOf(d, {i \in 1 .. Len(d) :
                                fin.tolerance >= 0 /\ Leq(d[i], Real(fin.tolerance))})

\* C17 amended: the same with the tolerance in force, which is the supplied
\* tolerance if it is positive and 0.6 otherwise.
C17_BestMatch ==
    fpc = "FindBestMatch" =>
        LET d == Distances
        IN fout = BestOf(d, {i \in 1 .. Len(d) : Leq(d[i], Real(EffectiveTolerance))})

C17_Witness ==
    /\ fpc = "FindBestMatch"
    /\ fin.tolerance > 0
    /\ Len(Distances) = 2
    /\ Distances[1] = Distances[2]
    /\ fin.knownEncodings[1] # fin.knownEncodings[2]
    /\ Less(Real(0), Distances[1])
    /\ fout = [index |-> 0, distance |-> Distances[1]]

\* C18: CompareFaces returns one boolean per gallery entry, in order, true iff
\* the entry's distance to the probe is <= t, t being the supplied tolerance
\* if positive and 0.6 otherwise; a distance equal to t is a match.
C18_CompareFaces ==
    fpc = "CompareFaces" =>
        /\ Len(fout) = Len(fin.knownEncodings)
        /\ \A i \in 1 .. Len(fout) :
              fout[i] <=> Leq(FaceDistance(fin.knownEncodings[i], fin.faceToCheck),
                              Real(EffectiveTolerance))

C18_Witness ==
    /\ fpc = "CompareFaces"
    /\ fin.tolerance <= 0
    /\ \E i, j \in 1 .. Len(fout) :
          /\ Distances[i] = Real(DefaultTolerance)
          /\ fout[i]
          /\ ~fout[j]

\* sum of the squares of the numerators of components lo .. hi
RECURSIVE NumSquares(_, _, _)
NumSquares(norm, lo, hi) ==
    IF lo > hi THEN 0
    ELSE IF lo = hi THEN norm[lo].num * norm[lo].num
    ELSE NumSquares(norm, lo, (lo + hi) \div 2) + NumSquares(norm, ((lo + hi) \div 2) + 1, hi)

\* C19: NormalizeEncoding of an encoding of non-zero magnitude has Euclidean
\* norm 1; an encoding of zero magnitude is returned unchanged.
C19_UnitNorm ==
    fpc = "NormalizeEncoding" =>
        IF \A i \in 1 .. EncodingLen : fout.encoding[i] = 0
        THEN \A i \in 1 .. EncodingLen :
                fout.norm[i].num = fout.encoding[i] * fout.norm[i].den
        ELSE /\ \A i \in 1 .. EncodingLen : fout.norm[i].den = fout.norm[1].den
             /\ NumSquares(fout.norm, 1, EncodingLen) =
                    One * One * fout.norm[1].den * fout.norm[1].den

C21_BinaryRoundTrip ==
    /\ fpc \in {"EncodingToBytes", "BytesToEncoding"} =>
          /\ Len(fout.data) = EncodingLen * Float64Size
          /\ \A i \in 1 .. EncodingLen : \A k \in 1 .. Float64Size :
                fout.data[(i - 1) * Float64Size + k] = fout.encoding[i][Float64Size + 1 - k]
    /\ fpc = "BytesToEncoding" => fout.back = [encoding |-> fout.encoding, err |-> NoErr]
    /\ (fpc = "WriteEncodings" /\ fin.encodings = <<>>) => fout.stream = <<0, 0, 0, 0>>
    /\ (fpc = "ReadEncodings" /\ fout.n = Len(fout.stream)) =>
          fout.ret = [encodings |-> [isnil |-> FALSE, s |-> fin.encodings], err |-> NoErr]

C21_Witness ==
    /\ fpc = "ReadEncodings"
    /\ fout.n = Len(fout.stream)
    /\ Len(fin.encodings) = 2
    /\ fin.encodings[1] # fin.encodings[2]
    /\ fin.encodings[1][1] # fin.encodings[1][EncodingLen]
    /\ fout.ret.encodings.s = fin.encodings

\* C22: ReadEncodings on a stream that ends before the count or before count
\* whole encodings have been read returns an error and a nil list.
C22_TruncatedStream ==
    (fpc = "ReadEncodings" /\ fout.n < Len(fout.stream)) =>
        /\ fout.ret.err # NoErr
        /\ fout.ret.encodings = NilEncodings

C22_Witness ==
    /\ fpc = "ReadEncodings"
    /\ Len(fin.encodings) = 2
    /\ fout.n = Len(fout.stream) - 1
    /\ fout.ret = [encodings |-> NilEncodings, err |-> "ErrUnexpectedEOF"]

\* C23: AverageEncoding returns the component-wise arithmetic mean: n times
\* component i of the result is the sum of the inputs' components i; over one
\* encoding it returns that encoding, over none the all-zero encoding.
C23_AverageIsMean ==
    fpc = "AverageEncoding" =>
        \A i \in 1 .. EncodingLen :
            /\ fout[i].den > 0
            /\ Len(fin.encodings) = 0 => fout[i].num = 0
            /\ Len(fin.encodings) = 1 => fout[i].num = fin.encodings[1][i] * fout[i].den
            /\ Len(fin.encodings) >= 1 =>
                  fout[i].num * Len(fin.encodings) =
                      AverageEncoding_sum(fin.encodings, i, Len(fin.encodings)) * fout[i].den

C23_Witness ==
    /\ fpc = "AverageEncoding"
    /\ Len(fin.encodings) = 3
    /\ fin.encodings[1] # fin.encodings[2]
    /\ fout[1].num # 0
    /\ fout[1].num # fin.encodings[1][1] * fout[1].den


\* C24: every native buffer a pipeline stage allocates for one call (the pixel
\* copy it hands to the boundary, and the rectangle, landmark and descriptor
\* array the boundary returns) is freed exactly once by the time the stage
\* returns, on every exit path: it is never freed twice, and it is unfreed
\* only while it is the pixel copy of the boundary call in progress
C24_BuffersFreedOnce ==
    \A t \in Threads :
        \A i \in 1 .. Len(bufs[t]) :
            LET b == bufs[t][i] IN
            b.origin \in {"stage", "returned"} =>
                /\ b.frees <= 1
                /\ b.frees = 0 =>
                      /\ inflight[t] # "none"
                      /\ i = Len(bufs[t])
                      /\ b.kind = "pixels"

\* a call returned after a detection with faces, a landmark stage and an
\* encoding stage whose boundary call returned null
C24_Witness ==
    \E t \in Threads :
        /\ IsDone(t)
        /\ bfail[t]
        /\ \E i \in 1 .. Len(bufs[t]) : bufs[t][i] = Buffer("rects", "returned", 1)
        /\ \E i \in 1 .. Len(bufs[t]) : bufs[t][i] = Buffer("landmarks", "returned", 1)
        /\ bufs[t][Len(bufs[t])] = Buffer("pixels", "stage", 1)


\* a Close call is under way
CloseRunning(t) == op[t].fn = "Close" /\ status[t] = "running"

\* a boundary call never returned: the process died inside native code
BoundaryCallHung == crashed /\ \E u \in Threads : inflight[u] # "none"

\* no pipeline operation unlocks a read lock it does not hold, and each one
\* has given back every read lock it took when it returns
LockDiscipline ==
    \A t \in Threads :
        /\ rheld[t] >= 0
        /\ rheld[t] <= readers
        /\ status[t] \in {"idle", "done", "panicked"} => rheld[t] = 0
        /\ wmu = t => CloseRunning(t)

\* C25: every pipeline operation returns holding no lock on every exit path
\* and never unlocks a shared lock it does not hold; so, if every boundary
\* call returns, a Close that starts while pipeline calls are running
\* eventually acquires the exclusive lock and completes.
C25_CloseCompletes ==
    /\ []LockDiscipline
    /\ \A t \in Threads :
          (/\ CloseRunning(t)
           /\ \E u \in Threads : status[u] = "running" /\ op[u].fn # "Close")
              ~> (IsDone(t) \/ BoundaryCallHung)

\* the same with the process alive: the lock is handed to the waiting Close
C25_CloseCompletesUnlessDead ==
    /\ []LockDiscipline
    /\ \A t \in Threads : CloseRunning(t) ~> (IsDone(t) \/ crashed)


\* goroutine t called FaceLandmarksDetect with faceLocations == nil
NilBoxCall(t) == op[t].fn = "FaceLandmarksDetect" /\ op[t].locs = NilLocs

\* the FaceLandmarksDetect frame of such a call has its nested FaceLocations behind it
AfterNested(t) ==
    /\ NilBoxCall(t)
    /\ status[t] = "running"
    /\ Top(t).fn = "FaceLandmarksDetect"
    /\ Top(t).pc \in {"relock", "after"}

\* C26: FaceLandmarksDetect called with nil boxes first runs FaceLocations
\* with upsample 1 and the HOG detector, then asks the boundary for the
\* landmarks of exactly the boxes that detection returned; an error of the
\* nested detection is returned unchanged and no facerec_landmarks call is made.
C26_NilBoxesDetectFirst ==
    /\ [](\A t \in Threads :
            NilBoxCall(t) =>
                /\ Len(calls[t]) <= 2
                /\ Len(calls[t]) >= 1 =>
                      calls[t][1] = BoundaryCall("facerec_detect", 1, 0, <<>>, "hog")
                /\ Len(calls[t]) = 2 => calls[t][2].fn = "facerec_landmarks"
                /\ AfterNested(t) =>
                      (Top(t).ret.err = NoErr <=> Len(calls[t]) = 1))
    /\ [][\A t \in Threads :
            /\ (NilBoxCall(t) /\ Len(calls'[t]) > Len(calls[t]) /\ Len(calls[t]) = 1) =>
                  /\ AfterNested(t)
                  /\ Top(t).ret.err = NoErr
                  /\ Len(Top(t).ret.val) > 0
                  /\ calls'[t][2].boxes = Top(t).ret.val
            /\ (AfterNested(t) /\ Top(t).pc = "after" /\ Top(t).ret.err # NoErr
                    /\ stack'[t] # stack[t]) =>
                  /\ IsDone(t)'
                  /\ result'[t] = Ret(<<>>, Top(t).ret.err)
                  /\ calls'[t] = <<>>]_vars

\* a nil-box call finished after asking for the landmarks of a detected box
C26_Witness ==
    \E t \in Threads :
        /\ NilBoxCall(t)
        /\ IsDone(t)
        /\ result[t].err = NoErr
        /\ Len(calls[t]) = 2
        /\ calls[t][2].boxes = Boxes(1)

\* the nested detection of a nil-box call returned an error, and the
\* FaceLandmarksDetect that called it is about to look at it
C26_NestedErrorReached ==
    \E t \in Threads :
        /\ AfterNested(t)
        /\ Top(t).pc = "after"
        /\ Top(t).ret.err = NotInitialized


\* engine handle h is the handle of a recognizer NewFaceRecognizer returned
\* that is still initialized
OwnedHandle(h) ==
    \E r \in 1 .. Len(fout.recognizers) :
        fout.recognizers[r].rec = h /\ fout.recognizers[r].initialized

\* C27: every engine handle facerec_init created is owned by a returned,
\* initialized recognizer or has been freed: when NewFaceRecognizer fails on
\* a load error of the engine, the handle has been released when it returns.
C27_HandleOwnedOrFreed ==
    fpc = "idle" =>
        \A h \in 1 .. Len(fout.engines) :
            /\ fout.engines[h].frees <= 1
            /\ OwnedHandle(h) <=> fout.engines[h].frees = 0

====
